---- MODULE Spec2Model ----
(***************************************************************************)
(* F1Dashboard (src/main.py): a 2x2 matplotlib dashboard over one fastf1   *)
(* session, redrawn by a FuncAnimation timer callback (update_dashboard),  *)
(* plus the blocking live-fetch loop (fetch_live_positions).               *)
(*                                                                         *)
(* The session object and the plotting library are not part of the         *)
(* repository.  What a library call returns is drawn from the data of the  *)
(* session (a Snapshot below); whether it raises is a function of that     *)
(* data, so a tick is a deterministic function of what the session holds.  *)
(*                                                                         *)
(* The code uses Laps.pick_fastest() in two ways: line 118-119 treats its  *)
(* result as one lap, lines 152-156 and 168-170 as a table with a row per  *)
(* driver.  fastestShape fixes, for a whole behaviour, which of the two    *)
(* the library delivers on the whole lap table: "lap" (one lap, as fastf1  *)
(* documents it) or "table" (as the later lines presume).                  *)
(***************************************************************************)
EXTENDS Integers, Sequences, FiniteSets, TLC

\* Bounds of the model.
MaxDrivers == 2
MaxLaps == 2

VARIABLES
    prov,          \* what the provider would deliver on the next session.load()
    sess,          \* self.session: the data loaded by the last session.load()
    fastestShape,  \* what Laps.pick_fastest() yields on the whole lap table
    panels,        \* self.ax1 .. self.ax4: title and artists of each axes; no
                   \* axes at all when the constructor returned at line 25
    attached,      \* the four axes are still part of self.fig
    livePlot,      \* what the pyplot calls of plot_driver_positions or
                   \* fetch_live_positions have drawn on the current figure
    ctl,           \* where the main thread is
    tpc,           \* position of the timer callback update_dashboard
    laps,          \* local variable laps of update_dashboard
    drivers,       \* local variable drivers of update_dashboard
    stopRequested, \* a client has asked the dashboard to stop
    lastSeen,      \* history: the session data the last completed tick drew
    before         \* history: the panels as they were when the tick began

vars == <<prov, sess, fastestShape, panels, attached, livePlot, ctl, tpc, laps,
          drivers, stopRequested, lastSeen, before>>

----------------------------------------------------------------------------
\* Session data.

Axes == {"ax1", "ax2", "ax3", "ax4"}

\* session.drivers: the provider's list of driver numbers, in its order.
DriverList(n) == [i \in 1..n |-> i]

\* The lap times a row may carry, timedeltas counted in milliseconds: 91.8 s
\* and 92.5 s.
LapTimeValues == {91800, 92500}

\* One row of session.laps.  The provider lists the drivers in race order, so
\* the Position of a row is the place of its driver in that list.
LapRecords(n) ==
    {[Driver |-> d, LapTime |-> t, Position |-> d] : d \in 1..n, t \in LapTimeValues}

SeqsUpTo(S, k) == UNION {[1..m -> S] : m \in 0..k}

\* A loaded session: its drivers, its lap table, the drivers whose position
\* telemetry is available (get_pos_data succeeds; at most one car's telemetry
\* is missing), and whether laps.tire_strategies() yields a mapping (it raises
\* otherwise).
Snapshots ==
    UNION {[loaded : {TRUE},
            drivers : {DriverList(n)},
            laps : SeqsUpTo(LapRecords(n), MaxLaps),
            posData : {(1..n) \ {d} : d \in 0..n},
            strategies : BOOLEAN] : n \in 0..MaxDrivers}

\* A session whose lap data is not loaded: session.laps raises.
Unloaded ==
    [loaded |-> FALSE, drivers |-> <<>>, laps |-> <<>>, posData |-> {},
     strategies |-> FALSE]

\* The provider's data after one more lap has been timed.
Extensions(s) ==
    IF Len(s.laps) >= MaxLaps THEN {}
    ELSE {[s EXCEPT !.laps = Append(@, r)] : r \in LapRecords(Len(s.drivers))}

----------------------------------------------------------------------------
\* Library queries on the lap table.

Range(f) == {f[i] : i \in DOMAIN f}

\* laps.pick_driver(driver)
pick_driver(ls, d) == SelectSeq(ls, LAMBDA l : l.Driver = d)

\* Laps.pick_fastest(): the row with the least LapTime, the first of equals;
\* <<>> stands for None (no lap).
pick_fastest(ls) ==
    IF ls = <<>> THEN <<>>
    ELSE LET m == CHOOSE t \in {ls[i].LapTime : i \in DOMAIN ls} :
                      \A i \in DOMAIN ls : t <= ls[i].LapTime
             k == CHOOSE i \in DOMAIN ls :
                      /\ ls[i].LapTime = m
                      /\ \A j \in DOMAIN ls : ls[j].LapTime = m => i <= j
         IN <<ls[k]>>

RECURSIVE Appearing(_, _)
\* The drivers of a lap table in order of first appearance.
Appearing(ls, seen) ==
    IF ls = <<>> THEN <<>>
    ELSE IF Head(ls).Driver \in seen THEN Appearing(Tail(ls), seen)
    ELSE <<Head(ls).Driver>> \o Appearing(Tail(ls), seen \cup {Head(ls).Driver})

\* The rows of each driver's fastest lap (the "table" shape of pick_fastest).
FastestRows(ls) ==
    LET ds == Appearing(ls, {})
    IN [i \in DOMAIN ds |-> pick_fastest(pick_driver(ls, ds[i]))[1]]

\* Series.dt.total_seconds(): milliseconds to <<seconds, thousandths>>.
total_seconds(t) == <<t \div 1000, t % 1000>>

----------------------------------------------------------------------------
\* Drawing primitives.  An artist is what one draw call leaves on an axes.

Art(kind, who, val, txt) == [kind |-> kind, who |-> who, val |-> val, txt |-> txt]

\* ax.text(0.5, 0.5, 'N/A', centred)
NAText == Art("text", <<>>, <<5, 5>>, <<"N/A">>)

\* ax1.text(0.5, 0.5, f"Error: {e}", centred)
ErrorText(e) == Art("text", <<>>, <<5, 5>>, <<"Error: ", e>>)

\* ax1.scatter(pos_data['X'], pos_data['Y'], label=driver)
Scatter(d, lap) == Art("scatter", <<d>>, <<lap.LapTime>>, <<>>)

Legend == Art("legend", <<>>, <<>>, <<>>)

\* An axes that is not cleared keeps what it held.
ClearMut(p) == p

\* A clear that resets the title and keeps the artists.
ClearTitleOnly(p) == [p EXCEPT !.title = ""]

\* ax.clear(): artists and title are dropped.
clear(p) == [title |-> "", artists |-> <<>>]

set_title(p, t) == [p EXCEPT !.title = t]

draw(p, a) == [p EXCEPT !.artists = Append(@, a)]

IsFallback(a) == a.kind = "text" /\ a.txt # <<>> /\ a.txt[1] \in {"N/A", "Error: "}

Unbound == [bound |-> FALSE, val |-> <<>>]
Bound(v) == [bound |-> TRUE, val |-> v]

----------------------------------------------------------------------------
\* Positions panel, lines 113-125.

RECURSIVE ScatterDrivers(_, _, _, _)
\* The loop of lines 117-121 over the drivers still to draw: the artists drawn
\* and the exception that ended the loop ("" for none).  A driver with no lap
\* gives None, whose get_pos_data is an AttributeError; a driver without
\* position telemetry makes get_pos_data raise.
ScatterDrivers(ls, posData, ds, acc) ==
    IF ds = <<>> THEN [arts |-> acc, err |-> ""]
    ELSE LET d == Head(ds)
             fl == pick_fastest(pick_driver(ls, d))
         IN IF fl = <<>> THEN [arts |-> acc, err |-> "AttributeError"]
            ELSE IF d \notin posData THEN [arts |-> acc, err |-> "KeyError"]
            ELSE ScatterDrivers(ls, posData, Tail(ds), Append(acc, Scatter(d, fl[1])))

\* except Exception as e (line 124-125): the message is drawn over what the
\* try block had drawn so far.
PositionsExcept(p, e) == draw(p, ErrorText(e))

PositionsPanel(p, s) ==
    IF ~s.loaded THEN PositionsExcept(p, "DataNotLoadedError")
    ELSE LET r == ScatterDrivers(s.laps, s.posData, s.drivers, <<>>)
             q == [p EXCEPT !.artists = @ \o r.arts]
         IN IF r.err = "" THEN draw(q, Legend) ELSE PositionsExcept(q, r.err)

----------------------------------------------------------------------------
\* Tyre Strategies panel, lines 132-148.

\* laps.tire_strategies(): one entry per driver of the lap table, a compound
\* label per lap of that driver (the lap rows carry no compound of their own).
tire_strategies(ls) ==
    LET ds == Appearing(ls, {})
    IN [i \in DOMAIN ds |->
          [driver |-> ds[i],
           strategy |-> [j \in DOMAIN pick_driver(ls, ds[i]) |-> "SOFT"]]]

RECURSIVE join(_)
\* ' -> '.join(strategy)
join(strategy) ==
    IF strategy = <<>> THEN <<>>
    ELSE IF Len(strategy) = 1 THEN <<strategy[1]>>
    ELSE <<strategy[1], " -> ">> \o join(Tail(strategy))

\* ax2.text(0.1, 0.9 - (0.1 * driver), f"{driver}: {...}"), in tenths.
StrategyRow(e) == Art("text", <<e.driver>>, <<1, 9 - e.driver>>, join(e.strategy))

\* A fallback that draws the placeholder and leaves the title as the clear
\* left it.
PlaceholderMut(p, title) == draw(p, NAText)

\* except: (lines 143-148 and alike): the placeholder and the panel's title.
Placeholder(p, title) == set_title(draw(p, NAText), title)

TyrePanel(p, s) ==
    IF ~s.loaded \/ ~s.strategies THEN Placeholder(p, "Tyre Strategies")
    ELSE LET ts == tire_strategies(s.laps)
         IN set_title([p EXCEPT !.artists = @ \o [i \in DOMAIN ts |-> StrategyRow(ts[i])]],
                      "Tyre Strategies")

----------------------------------------------------------------------------
\* Current Lap Times panel, lines 150-164.

\* laps.pick_fastest() on the whole table (lines 152 and 168), as a sequence
\* of rows: the single fastest lap, or each driver's fastest lap.
current_lap_times(ls, shape) ==
    IF shape = "lap" THEN pick_fastest(ls) ELSE FastestRows(ls)

\* current_lap_times['LapTime'].dt.total_seconds(): a column has the .dt
\* accessor; the scalar of a single lap (or None) has not, and the line raises.
TimesOk(shape) == shape = "table"

Bar(row) == Art("bar", <<row.Driver>>, total_seconds(row.LapTime), <<>>)

LapTimesPanel(p, l, shape) ==
    IF ~l.bound \/ ~TimesOk(shape) THEN Placeholder(p, "Current Lap Times")
    ELSE LET rows == current_lap_times(l.val, shape)
             names == [i \in DOMAIN rows |-> rows[i].Driver]
             bars == [i \in DOMAIN rows |-> Bar(rows[i])]
         IN set_title([p EXCEPT !.artists =
                           @ \o bars
                             \o <<Art("xticklabels", names, <<45>>, <<>>),
                                  Art("ylabel", <<>>, <<>>, <<"Lap Time (seconds)">>)>>],
                      "Current Lap Times")

\* The local drivers after the block: line 154 rebinds it when it is reached.
LapTimesDrivers(l, d, shape) ==
    IF ~l.bound \/ ~TimesOk(shape) THEN d
    ELSE LET rows == current_lap_times(l.val, shape)
         IN Bound([i \in DOMAIN rows |-> rows[i].Driver])

----------------------------------------------------------------------------
\* Driver Positions panel, lines 166-177.

RECURSIVE Sum(_)
Sum(xs) == IF xs = <<>> THEN 0 ELSE Head(xs) + Sum(Tail(xs))

\* One wedge of ax4.pie(positions, labels=drivers, autopct='%1.1f%%'): its
\* label, the value and the total it is a share of, and the share in tenths
\* of a percent.
Wedge(label, x, total) ==
    Art("wedge", <<label>>, <<x, total, (2000 * x + total) \div (2 * total)>>, <<>>)

\* len(positions) and pie need a column: the scalar of a single lap (or None)
\* raises.  pie raises when labels and values differ in length.
StandingsPanel(p, l, d, shape) ==
    IF ~l.bound \/ shape = "lap" \/ ~d.bound THEN Placeholder(p, "Driver Positions")
    ELSE LET rows == current_lap_times(l.val, shape)
             positions == [i \in DOMAIN rows |-> rows[i].Position]
         IN IF Len(d.val) # Len(positions) THEN Placeholder(p, "Driver Positions")
            ELSE set_title([p EXCEPT !.artists =
                                @ \o [i \in DOMAIN positions |->
                                        Wedge(d.val[i], positions[i], Sum(positions))]],
                           "Driver Positions")

----------------------------------------------------------------------------
\* Construction, lines 9-57: the session loaded, the figure and timer made,
\* or the load failed and nothing made.

\* Lines 39-47: ax1 holds the track layout, or the placeholder when it cannot
\* be drawn; lines 49-50 leave ax2 .. ax4 empty and untitled.
Constructed(track) ==
    [a \in Axes |->
        IF a = "ax1"
        THEN [title |-> "Track Layout",
              artists |-> IF track THEN <<Art("track", <<>>, <<>>, <<>>)>> ELSE <<NAText>>]
        ELSE [title |-> "", artists |-> <<>>]]

\* Lines 21-25: session.load() raised and __init__ returned: the object has
\* no fig, no ax1 .. ax4 and no animation.
NoPanels == [a \in {} |-> clear(a)]

\* __init__ ran to its end: the figure, the four axes and the timer exist.
Built == DOMAIN panels = Axes

Init ==
    /\ prov \in Snapshots
    /\ fastestShape \in {"lap", "table"}
    /\ \/ /\ sess \in {prov, Unloaded}
          /\ \E track \in BOOLEAN : panels = Constructed(track)
          /\ attached = TRUE
       \/ /\ sess = Unloaded
          /\ panels = NoPanels
          /\ attached = FALSE
    /\ livePlot = <<>>
    /\ ctl = "top"
    /\ tpc = "idle"
    /\ laps = Unbound
    /\ drivers = Unbound
    /\ stopRequested = FALSE
    /\ lastSeen = <<>>
    /\ before = panels

----------------------------------------------------------------------------
\* The main thread and the event loop.

\* An event loop that would hand out events while a callback is running.
EventLoopIdleMut == TRUE

\* The GUI event loop (plt.show, plt.pause) runs on the main thread: it hands
\* out the next timer event, or returns from plt.pause, only between callbacks.
EventLoopIdle == tpc = "idle"

\* show(), lines 181-182: plt.show() blocks in the event loop; with no
\* figure open it returns at once.
show ==
    /\ ctl = "top"
    /\ Built
    /\ ctl' = "show"
    /\ UNCHANGED <<prov, sess, fastestShape, panels, attached, livePlot, tpc, laps, drivers,
                   stopRequested, lastSeen, before>>

\* The class has no stop(): a client's call raises AttributeError before it
\* reaches self.animation, and the timer stays registered.
stop ==
    /\ ctl = "top"
    /\ ~stopRequested
    /\ stopRequested' = TRUE
    /\ UNCHANGED <<prov, sess, fastestShape, panels, attached, livePlot, ctl, tpc, laps,
                   drivers, lastSeen, before>>

\* A call of update_dashboard on an object whose constructor returned at line
\* 25: self.ax1 in line 110 is an AttributeError.
TickWithoutPanels ==
    /\ ctl = "top"
    /\ ~Built
    /\ ctl' = "crashed"
    /\ UNCHANGED <<prov, sess, fastestShape, panels, attached, livePlot, tpc, laps, drivers,
                   stopRequested, lastSeen, before>>

RECURSIVE StaticScatter(_, _)
\* Lines 76-83: a scatter of the latest lap of every driver that has laps and
\* whose car telemetry is not empty.
StaticScatter(s, ds) ==
    IF ds = <<>> THEN <<>>
    ELSE LET d == Head(ds)
             driver_laps == pick_driver(s.laps, d)
         IN IF driver_laps # <<>> /\ d \in s.posData
            THEN <<Scatter(d, driver_laps[Len(driver_laps)])>> \o StaticScatter(s, Tail(ds))
            ELSE StaticScatter(s, Tail(ds))

\* A static plot that reads no session data before it draws.
StaticPlotRaisesMut(s) == FALSE

\* Lines 63-64 stand outside any try: session.laps raises when the session
\* data is not loaded.
StaticPlotRaises(s) == ~s.loaded

\* plot_driver_positions(), lines 59-89: a new figure becomes the current
\* one, the drivers' latest laps are drawn on it, and plt.show() blocks in
\* the event loop.
plot_driver_positions ==
    /\ ctl = "top"
    /\ IF StaticPlotRaises(sess)
       THEN /\ ctl' = "crashed"
            /\ UNCHANGED livePlot
       ELSE /\ ctl' = "show"
            /\ livePlot' = StaticScatter(sess, sess.drivers)
                             \o <<Art("title", <<>>, <<>>, <<"Driver Positions - ">>), Legend>>
    /\ UNCHANGED <<prov, sess, fastestShape, panels, attached, tpc, laps, drivers,
                   stopRequested, lastSeen, before>>

\* fetch_live_positions(), line 92-93: the main thread enters the loop.
fetch_live_positions ==
    /\ ctl = "top"
    /\ ctl' = "live"
    /\ UNCHANGED <<prov, sess, fastestShape, panels, attached, livePlot, tpc, laps, drivers,
                   stopRequested, lastSeen, before>>

RECURSIVE LiveScatter(_, _)
\* Lines 98-104: a scatter per driver; a driver whose data cannot be had is
\* reported on the console and skipped.
LiveScatter(s, ds) ==
    IF ds = <<>> THEN <<>>
    ELSE LET d == Head(ds)
             fl == pick_fastest(pick_driver(s.laps, d))
         IN IF s.loaded /\ fl # <<>> /\ d \in s.posData
            THEN <<Scatter(d, fl[1])>> \o LiveScatter(s, Tail(ds))
            ELSE LiveScatter(s, Tail(ds))

\* One iteration, lines 94-107, up to plt.pause: the session is reloaded (the
\* lap data may fail to load without load() raising), plt.clf() empties the
\* current figure, which is self.fig when there is one, the drivers' fastest
\* laps are drawn on it, and plt.pause runs the event loop.
LiveIteration ==
    /\ ctl = "live"
    /\ \E s \in {prov, Unloaded} :
          /\ sess' = s
          /\ livePlot' = LiveScatter(s, s.drivers) \o <<Legend>>
    /\ attached' = FALSE
    /\ ctl' = "pause"
    /\ UNCHANGED <<prov, fastestShape, panels, tpc, laps, drivers, stopRequested,
                   lastSeen, before>>

\* Line 94 stands outside any try: when session.load raises, the exception
\* leaves fetch_live_positions and the main thread.
LiveLoadFails ==
    /\ ctl = "live"
    /\ ctl' = "crashed"
    /\ UNCHANGED <<prov, sess, fastestShape, panels, attached, livePlot, tpc, laps, drivers,
                   stopRequested, lastSeen, before>>

\* plt.pause(2) returns, line 107, and the loop starts over.
PauseEnds ==
    /\ ctl = "pause"
    /\ EventLoopIdle
    /\ ctl' = "live"
    /\ UNCHANGED <<prov, sess, fastestShape, panels, attached, livePlot, tpc, laps, drivers,
                   stopRequested, lastSeen, before>>

\* The provider times another lap.
ProviderUpdate ==
    /\ \E s \in Extensions(prov) : prov' = s
    /\ UNCHANGED <<sess, fastestShape, panels, attached, livePlot, ctl, tpc, laps, drivers,
                   stopRequested, lastSeen, before>>

----------------------------------------------------------------------------
\* update_dashboard, lines 109-179, one step per panel block.

\* The timer fires (interval=5000, lines 52-57); lines 110-111.
TimerFires ==
    /\ Built
    /\ ctl \in {"show", "pause"}
    /\ EventLoopIdle
    /\ panels' = [panels EXCEPT !.ax1 = set_title(clear(@), "Live Driver Positions")]
    /\ tpc' = "positions"
    /\ UNCHANGED <<prov, sess, fastestShape, attached, livePlot, ctl, laps, drivers,
                   stopRequested, lastSeen, before>>

\* Lines 113-125.
Positions ==
    /\ tpc = "positions"
    /\ laps' = IF sess.loaded THEN Bound(sess.laps) ELSE laps
    /\ drivers' = IF sess.loaded THEN Bound(sess.drivers) ELSE drivers
    /\ panels' = [panels EXCEPT !.ax1 = PositionsPanel(@, sess)]
    /\ tpc' = "tyres"
    /\ UNCHANGED <<prov, sess, fastestShape, attached, livePlot, ctl, stopRequested,
                   lastSeen, before>>

\* Lines 129-148.
TyreStrategies ==
    /\ tpc = "tyres"
    /\ laps' = IF sess.loaded THEN Bound(sess.laps) ELSE laps
    /\ panels' = [panels EXCEPT !.ax2 = TyrePanel(clear(@), sess),
                                !.ax3 = clear(@),
                                !.ax4 = clear(@)]
    /\ tpc' = "laptimes"
    /\ UNCHANGED <<prov, sess, fastestShape, attached, livePlot, ctl, drivers, stopRequested,
                   lastSeen, before>>

\* Lines 150-164.
LapTimes ==
    /\ tpc = "laptimes"
    /\ panels' = [panels EXCEPT !.ax3 = LapTimesPanel(@, laps, fastestShape)]
    /\ drivers' = LapTimesDrivers(laps, drivers, fastestShape)
    /\ tpc' = "standings"
    /\ UNCHANGED <<prov, sess, fastestShape, attached, livePlot, ctl, laps, stopRequested,
                   lastSeen, before>>

\* A Driver Positions block without its except clause: the exception of a
\* failed pie leaves the callback, and line 179 is not reached.
StandingsMut ==
    /\ tpc = "standings"
    /\ panels' = [panels EXCEPT !.ax4 = StandingsPanel(@, laps, drivers, fastestShape)]
    /\ tpc' = IF StandingsPanel(panels.ax4, laps, drivers, fastestShape)
                   = Placeholder(panels.ax4, "Driver Positions")
              THEN "idle" ELSE "layout"
    /\ UNCHANGED <<prov, sess, fastestShape, attached, livePlot, ctl, laps, drivers,
                   stopRequested, lastSeen, before>>

\* Lines 166-177.
Standings ==
    /\ tpc = "standings"
    /\ panels' = [panels EXCEPT !.ax4 = StandingsPanel(@, laps, drivers, fastestShape)]
    /\ tpc' = "layout"
    /\ UNCHANGED <<prov, sess, fastestShape, attached, livePlot, ctl, laps, drivers,
                   stopRequested, lastSeen, before>>

\* Line 179, and the callback returns: its locals are gone.
TightLayout ==
    /\ tpc = "layout"
    /\ tpc' = "idle"
    /\ laps' = Unbound
    /\ drivers' = Unbound
    /\ lastSeen' = <<sess>>
    /\ before' = panels
    /\ UNCHANGED <<prov, sess, fastestShape, panels, attached, livePlot, ctl, stopRequested>>

Next ==
    \/ show
    \/ stop
    \/ TickWithoutPanels
    \/ plot_driver_positions
    \/ fetch_live_positions
    \/ LiveIteration
    \/ LiveLoadFails
    \/ PauseEnds
    \/ ProviderUpdate
    \/ TimerFires
    \/ Positions
    \/ TyreStrategies
    \/ LapTimes
    \/ Standings
    \/ TightLayout

Spec == Init /\ [][Next]_vars

----------------------------------------------------------------------------
\* Vocabulary of the properties.

\* All four panel blocks of the running tick are done; line 179 is next.
TickDone == tpc = "layout"

Artists(a) == panels[a].artists

\* The panel shows a fallback text (the placeholder or an error message).
Fallen(a) == \E i \in DOMAIN Artists(a) : IsFallback(Artists(a)[i])

Ready(a) == ~Fallen(a)

DriversWithLap(s) == {d \in Range(s.drivers) : pick_driver(s.laps, d) # <<>>}

\* The data a view needs is there, for each panel's view.
ValidFor(a, s) ==
    /\ s.loaded
    /\ s.drivers # <<>>
    /\ DriversWithLap(s) = Range(s.drivers)
    /\ a = "ax1" => s.posData = Range(s.drivers)
    /\ a = "ax2" => s.strategies

FullData(s) == \A a \in Axes : ValidFor(a, s)

\* C1: isolation.  After the four blocks of a tick, whenever one view has
\* fallen back and the other three views have valid data, the other three
\* panels are Ready.
Isolation ==
    TickDone =>
        \A v \in Axes :
            (Fallen(v) /\ \A w \in Axes \ {v} : ValidFor(w, sess))
                => \A w \in Axes \ {v} : Ready(w)

\* C2: provider outage and recovery.  A tick whose session data cannot be
\* read leaves the "N/A" placeholder, and nothing else, in all four panels;
\* the next tick, with the data back, leaves all four panels Ready.
OutageAndRecovery ==
    TickDone =>
        /\ ~sess.loaded => \A a \in Axes : Artists(a) = <<NAText>>
        /\ (lastSeen = <<Unloaded>> /\ FullData(sess)) => \A a \in Axes : Ready(a)

\* C3: panel display invariant.  After a tick no panel shows an error
\* message, and a panel that shows the placeholder shows nothing else.
PanelDisplay ==
    TickDone =>
        \A a \in Axes :
            /\ \A i \in DOMAIN Artists(a) : Artists(a)[i].txt # <<>> =>
                   Artists(a)[i].txt[1] # "Error: "
            /\ Fallen(a) => Artists(a) = <<NAText>>

\* C4: stop.  Once a client has asked the dashboard to stop, no tick starts
\* or proceeds and no panel is drawn.
StopHalts == [][stopRequested => UNCHANGED <<tpc, panels>>]_vars

\* C5: single active refresh.  While a tick is between its first read and
\* its layout step, no new tick starts and the session data does not change.
SingleRefresh ==
    [][tpc # "idle" =>
          /\ sess' = sess
          /\ tpc' = "positions" => tpc = "positions"]_vars

\* A tick is under way inside plt.pause of the live-fetch loop while the
\* provider holds data the session has not loaded.
SingleRefreshWitness == ctl = "pause" /\ tpc = "laptimes" /\ prov # sess

\* C6: no failure stops the refresh loop.  Neither a step of a tick nor the
\* reload of the live-fetch loop ends the main thread.
NoFailureStops == [][(tpc # "idle" \/ ctl = "live") => ctl' # "crashed"]_vars

\* C7: every tick re-acquires the session data.  After the first step of a
\* tick the session holds what a load from the provider delivers.
FreshEachTick ==
    [][(tpc = "idle" /\ tpc' = "positions") => sess' \in {prov, Unloaded}]_vars

\* The fastest lap time of each participant, in seconds.
FastestBy(s) ==
    {<<d, total_seconds(pick_fastest(pick_driver(s.laps, d))[1].LapTime)>> :
        d \in DriversWithLap(s)}

Bars(a) ==
    {<<Artists(a)[i].who[1], Artists(a)[i].val>> :
        i \in {j \in DOMAIN Artists(a) : Artists(a)[j].kind = "bar"}}

\* C8: LapTimes view.  After a tick the lap-time panel holds one bar per
\* participant that has a lap time, at that participant's fastest time in
\* seconds, and it has fallen back exactly when no participant has one.
LapTimesView ==
    TickDone =>
        /\ Fallen("ax3") <=> FastestBy(sess) = {}
        /\ Ready("ax3") => Bars("ax3") = FastestBy(sess)

\* C9: empty session.  A tick over a session with no participants leaves the
\* placeholder in all four panels.
EmptySession ==
    (TickDone /\ sess.loaded /\ sess.drivers = <<>>) =>
        \A a \in Axes : Artists(a) = <<NAText>>

\* C10: render idempotence.  A tick that drew the same session data as the
\* tick before it leaves every panel as that tick left it.
RenderIdempotent == (TickDone /\ lastSeen = <<sess>>) => panels = before

\* A second tick over unchanged data that drew more than one artist.
RenderIdempotentWitness ==
    /\ TickDone
    /\ lastSeen = <<sess>>
    /\ Len(Artists("ax1")) >= 2

\* C11: cooperative cancellation of the live fetch.  Once a client has asked
\* for cancellation, the live-fetch loop at the top of an iteration starts no
\* further reload of the session: it neither goes on into plt.pause nor ends
\* with the exception of a failed load.
CancelEndsLiveFetch ==
    [][(stopRequested /\ ctl = "live") => ctl' \notin {"pause", "crashed"}]_vars

\* The title each panel carries after a tick.
TitleOf(a) ==
    CASE a = "ax1" -> "Live Driver Positions"
      [] a = "ax2" -> "Tyre Strategies"
      [] a = "ax3" -> "Current Lap Times"
      [] a = "ax4" -> "Driver Positions"

\* A tick has run to its end and no later tick is under way.
AfterTick == tpc = "idle" /\ lastSeen # <<>>

\* C12: title preservation.  When the four blocks of a tick are done, and
\* from the end of a tick until the next one begins, each of the four panels
\* carries its own title, whether its view was drawn or fell back.
TitlePreservation ==
    (TickDone \/ AfterTick) => \A a \in Axes : panels[a].title = TitleOf(a)

\* A tick has ended with the lap-time view fallen back next to a tyre view
\* that was drawn with at least one row.
TitlePreservationWitness ==
    /\ AfterTick
    /\ Fallen("ax3")
    /\ Ready("ax2")
    /\ Artists("ax2") # <<>>

\* The participants whose position samples can be had: they have a lap and
\* their telemetry is available.
Drawable(s) ==
    {d \in Range(s.drivers) : pick_driver(s.laps, d) # <<>> /\ d \in s.posData}

Points(a) ==
    {Artists(a)[i].who[1] :
        i \in {j \in DOMAIN Artists(a) : Artists(a)[j].kind = "scatter"}}

\* C13: partial results of the Positions view.  After a tick over loaded
\* session data the Positions panel is Ready and holds a point set for
\* exactly the participants whose position samples can be had; the others
\* are left out.
PartialPositions ==
    (TickDone /\ sess.loaded) =>
        /\ Ready("ax1")
        /\ Points("ax1") = Drawable(sess)

Wedges(a) == {i \in DOMAIN Artists(a) : Artists(a)[i].kind = "wedge"}

\* C14: weights of the Standings view.  When the Standings panel is Ready
\* after a tick, it holds one slice per participant that has a fastest lap
\* and all slices have the same share of the pie.
StandingsWeights ==
    (TickDone /\ Ready("ax4")) =>
        /\ {Artists("ax4")[i].who[1] : i \in Wedges("ax4")} = DriversWithLap(sess)
        /\ \A i, j \in Wedges("ax4") :
               Artists("ax4")[i].val[3] = Artists("ax4")[j].val[3]

\* The block of a panel has run to its end in the running tick: the block of
\* ax1 ends with the legend or with the error message, each of the other
\* three with its set_title, after the clear of line 129-130.
Settled(a) ==
    IF a = "ax1"
    THEN /\ Artists(a) # <<>>
         /\ \/ Artists(a)[Len(Artists(a))] = Legend
            \/ IsFallback(Artists(a)[Len(Artists(a))])
    ELSE panels[a].title = TitleOf(a)

\* The order in which the callback passes its steps.
TickOrder ==
    {<<"idle", "positions">>, <<"positions", "tyres">>, <<"tyres", "laptimes">>,
     <<"laptimes", "standings">>, <<"standings", "layout">>, <<"layout", "idle">>}

\* C15: barrier before composition.  The callback passes its steps in one
\* fixed order, so that every tick reaches the layout step once, after the
\* four panel blocks and whatever the blocks did; and when the layout step is
\* next, every panel is settled: drawn to its end or fallen back.
Barrier ==
    /\ [](TickDone => \A a \in Axes : Settled(a))
    /\ [][tpc' # tpc => <<tpc, tpc'>> \in TickOrder]_vars

\* The layout step is next in a tick in which the Positions block failed
\* half way and the Driver Positions block fell back.
BarrierWitness ==
    /\ TickDone
    /\ Fallen("ax1")
    /\ Len(Artists("ax1")) >= 2
    /\ Fallen("ax4")

\* C16: panel persistence.  The four axes made by the constructor stay part
\* of the dashboard's figure whatever operations follow, and a step of a tick
\* changes nothing but the panels' content (and the callback's own locals).
PanelPersistence ==
    /\ [](Built => attached)
    /\ [][tpc' # tpc => UNCHANGED <<prov, sess, attached, livePlot, ctl, stopRequested>>]_vars

\* C17: failed construction.  An object whose constructor returned at line
\* 25 never gets panels, no tick ever runs on it, and a call of
\* update_dashboard or of plot_driver_positions on it ends with an exception
\* and shows nothing.
FailedConstruction ==
    /\ [](~Built => (panels = NoPanels /\ tpc = "idle" /\ lastSeen = <<>> /\ ctl # "show"))
    /\ [][~Built => ~Built']_vars
    /\ [][(~Built /\ (TickWithoutPanels \/ plot_driver_positions)) => ctl' = "crashed"]_vars

\* An operation on an object without panels has ended with an exception
\* before the live-fetch loop drew anything.
FailedConstructionWitness == ~Built /\ ctl = "crashed" /\ livePlot = <<>>

FallenPanel(p) == \E i \in DOMAIN p.artists : IsFallback(p.artists[i])

IsPrefix(xs, ys) == Len(xs) <= Len(ys) /\ SubSeq(ys, 1, Len(xs)) = xs

\* C18: no stale content.  A panel that the tick before left Ready with a
\* payload and whose view fails in this tick shows the fallback and not the
\* payload of the tick before; a fallen-back panel of ax2 .. ax4 shows the
\* placeholder alone.
NoStaleContent ==
    (TickDone /\ lastSeen # <<>>) =>
        \A a \in Axes :
            (~FallenPanel(before[a]) /\ before[a].artists # <<>> /\ Fallen(a)) =>
                /\ ~IsPrefix(before[a].artists, Artists(a))
                /\ a # "ax1" => Artists(a) = <<NAText>>

\* The tick before left the Positions and the Tyre Strategies panels Ready
\* with a payload, and both have fallen back in this tick.
NoStaleContentWitness ==
    /\ TickDone
    /\ lastSeen # <<>>
    /\ \A a \in {"ax1", "ax2"} :
           ~FallenPanel(before[a]) /\ before[a].artists # <<>> /\ Fallen(a)

====
